---- MODULE Spec2Model ----
(***************************************************************************)
(* kener-agent: the `apply` command, which creates on a remote monitoring  *)
(* service the monitors that are described in local YAML definition files. *)
(*                                                                         *)
(* The repository holds two revisions of the command:                      *)
(*   "cli"  : cli.py cmd_apply, working on Monitor objects (types.py,      *)
(*            monitor.py) and talking to the service through KenerAPI      *)
(*            (api.py);                                                    *)
(*   "main" : main.py cmd_apply, working on plain dicts with the helper    *)
(*            functions of main.py.                                        *)
(* Both are modelled; the variable impl says which one a behaviour runs.   *)
(*                                                                         *)
(* A Python dict is a function whose DOMAIN is the set of its keys.  YAML  *)
(* and JSON scalars are modelled by their text ("1" is the integer 1),     *)
(* None/null by the string Null.                                           *)
(***************************************************************************)
EXTENDS Integers, Sequences, FiniteSets, TLC

VARIABLES
    impl,       \* "cli" or "main": the revision of cmd_apply that runs
    files,      \* the definition files, in the order the loader returned them
    remote,     \* the monitors the remote service holds, oldest first
    run,        \* 1 in the first apply run, 2 in the run repeated on the same definitions
    pc,         \* position of cmd_apply
    fi,         \* index in files of the file being processed
    monitors,   \* the monitors loaded from file fi
    mi,         \* index in monitors of the monitor being processed
    seen_tags,  \* cli.py: the tags seen so far in this run
    cur,        \* the monitor being processed
    kids,       \* main.py resolve_group_monitors: child references still to look up
    resolved,   \* main.py resolve_group_monitors: resolved_children so far
    log,        \* every HTTP request issued so far, with the answer it got
    snap,       \* the remote monitors as they were when the previous run ended
    faults,     \* number of requests answered with a failure so far
    setup,      \* what the run finds when it loads its configuration and folder
    raised,     \* the call whose exception left cmd_apply in this run ("" if none)
    fn,         \* the helper function that was applied to input ("" before)
    input,      \* the argument a helper function is applied to
    output,     \* what the helper function returned
    config_file \* ~/.config/kener-agent/config.yml: whether it exists, and its content

vars == <<impl, files, remote, run, pc, fi, monitors, mi, seen_tags, cur, kids,
          resolved, log, snap, faults, setup, raised, fn, input, output,
          config_file>>

-----------------------------------------------------------------------------
(* Bounds of the model *)

MaxMonitors == 2    \* monitor definitions in all files together
MaxFaults == 1      \* requests answered with a failure

-----------------------------------------------------------------------------
(* Python dicts and values *)

Null == "null"
EmptyDict == [k \in {} |-> Null]

Get(d, k, dflt) == IF k \in DOMAIN d THEN d[k] ELSE dflt
Put(d, k, v) == [x \in (DOMAIN d) \cup {k} |-> IF x = k THEN v ELSE d[x]]
\* dict.setdefault replaced by an assignment: a present key is overwritten
SetDefault_Overwrite(d, k, v) == Put(d, k, v)
\* d.setdefault(k, v)
SetDefault(d, k, v) == IF k \in DOMAIN d THEN d ELSE Put(d, k, v)

\* no configuration file has been written
NoConfigFile == [exists |-> FALSE, cfg |-> EmptyDict]

\* Python truthiness of a scalar: None, "" and 0 are falsy
Falsy(v) == v \in {Null, "", "0"}

-----------------------------------------------------------------------------
(* types.py: the enumerations and the Monitor record *)

MonitorStatus == {"NONE", "UP", "DEGRADED", "DOWN"}
MonitorType == {"API", "PING", "DNS", "TCP", "GROUP", "SSL", "SQL"}

\* a member of an Enum class; Enum members define no __bool__ and are truthy
EnumMember(cls, v) == [enum |-> cls, value |-> v]

\* Monitor.monitor_from_dict checking monitor_type only
monitor_from_dict_raises_TypeOnly(data) ==
    \/ "id" \notin DOMAIN data
    \/ "name" \notin DOMAIN data
    \/ "monitor_type" \notin DOMAIN data
    \/ data["monitor_type"] \notin MonitorType

\* Monitor.monitor_from_dict raises (KeyError for a missing required key,
\* ValueError for a string outside an enumeration)
monitor_from_dict_raises(data) ==
    \/ "id" \notin DOMAIN data
    \/ "name" \notin DOMAIN data
    \/ "monitor_type" \notin DOMAIN data
    \/ data["monitor_type"] \notin MonitorType
    \/ Get(data, "status", "NONE") \notin MonitorStatus
    \/ Get(data, "default_status", "NONE") \notin MonitorStatus

\* Monitor.monitor_from_dict: the Monitor object built from a raw mapping
monitor_from_dict(data) ==
    [ class |-> "Monitor",
      id |-> data["id"],
      name |-> data["name"],
      description |-> Get(data, "description", ""),
      category_name |-> Get(data, "category_name", ""),
      created_at |-> Get(data, "created_at", ""),
      updated_at |-> Get(data, "updated_at", ""),
      cron |-> Get(data, "cron", "* * * * *"),
      day_degraded_minimum_count |-> Get(data, "day_degraded_minimum_count", "1"),
      day_down_minimum_count |-> Get(data, "day_down_minimum_count", "1"),
      image |-> Get(data, "image", ""),
      include_degraded_in_downtime |-> Get(data, "include_degraded_in_downtime", "NO"),
      monitor_type |-> EnumMember("MonitorType", data["monitor_type"]),
      status |-> EnumMember("MonitorStatus", Get(data, "status", "NONE")),
      tag |-> Get(data, "tag", ""),
      default_status |-> EnumMember("MonitorStatus", Get(data, "default_status", "NONE")),
      degraded_trigger |-> Get(data, "degraded_trigger", Null),
      down_trigger |-> Get(data, "down_trigger", Null),
      type_data |-> Get(data, "type_data", EmptyDict) ]

\* isinstance(x, dict): Monitor objects carry their class, dicts do not
IsDict(x) == "class" \notin DOMAIN x

-----------------------------------------------------------------------------
(* The defaulting engine, in its three revisions *)

\* datetime.now(timezone.utc).strftime("%Y-%m-%dT%H:%M:%S.000Z"), clock fixed
Now == "2025-01-01T00:00:00.000Z"

DefaultKeys == <<"cron", "day_degraded_minimum_count", "day_down_minimum_count",
                 "default_status", "degraded_trigger", "down_trigger",
                 "include_degraded_in_downtime", "status", "description">>

\* the `defaults` dict of api.py and main.py
defaults ==
    [ cron |-> "* * * * *",
      day_degraded_minimum_count |-> "1",
      day_down_minimum_count |-> "1",
      default_status |-> "NONE",
      degraded_trigger |-> Null,
      down_trigger |-> Null,
      include_degraded_in_downtime |-> "NO",
      status |-> "ACTIVE",
      description |-> "" ]

RECURSIVE SetDefaults(_, _, _)
\* for key, value in defaults.items(): monitor.setdefault(key, value)
SetDefaults(monitor, keys, i) ==
    IF i > Len(keys) THEN monitor
    ELSE SetDefaults(SetDefault(monitor, keys[i], defaults[keys[i]]), keys, i + 1)

\* api.py KenerAPI.apply_monitor_defaults (on a dict)
KenerAPI_apply_monitor_defaults(monitor) ==
    IF ~IsDict(monitor) THEN monitor
    ELSE SetDefaults(SetDefault(monitor, "created_at", Now), DefaultKeys, 1)

\* main.py apply_monitor_defaults returning before the loop over the defaults
main_apply_monitor_defaults_NoLoop(monitor) == SetDefault(monitor, "created_at", Now)

\* main.py apply_monitor_defaults (on a dict)
main_apply_monitor_defaults(monitor) ==
    SetDefaults(SetDefault(monitor, "created_at", Now), DefaultKeys, 1)

\* apply_monitor_defaults taking the default of description from the cron the
\* monitor came with
apply_monitor_defaults_DescriptionFromCron(monitor) ==
    IF IsDict(monitor) THEN monitor
    ELSE [ monitor EXCEPT
             !.cron = IF Falsy(@) THEN "* * * * *" ELSE @,
             !.day_degraded_minimum_count = IF Falsy(@) THEN "1" ELSE @,
             !.day_down_minimum_count = IF Falsy(@) THEN "1" ELSE @,
             !.include_degraded_in_downtime = IF Falsy(@) THEN "NO" ELSE @,
             !.description = IF Falsy(@) THEN monitor.cron ELSE @,
             !.created_at = IF Falsy(@) THEN Now ELSE @ ]

\* monitor.py apply_monitor_defaults (on a Monitor object): falsy fields are
\* replaced; Enum members are truthy and hasattr() holds for every dataclass
\* field, so default_status, status and both triggers are never assigned
apply_monitor_defaults(monitor) ==
    IF IsDict(monitor) THEN monitor
    ELSE [ monitor EXCEPT
             !.cron = IF Falsy(@) THEN "* * * * *" ELSE @,
             !.day_degraded_minimum_count = IF Falsy(@) THEN "1" ELSE @,
             !.day_down_minimum_count = IF Falsy(@) THEN "1" ELSE @,
             !.include_degraded_in_downtime = IF Falsy(@) THEN "NO" ELSE @,
             !.description = IF Falsy(@) THEN "" ELSE @,
             !.created_at = IF Falsy(@) THEN Now ELSE @ ]

-----------------------------------------------------------------------------
(* monitor.py validate_monitor *)

\* validate_monitor looking at the tag only
validate_monitor_TagOnly(monitor) == ~Falsy(monitor.tag)

\* getattr(monitor, field, None) is falsy for one of tag, name, monitor_type;
\* monitor_type holds an Enum member, which is truthy
validate_monitor(monitor) ==
    /\ ~Falsy(monitor.tag)
    /\ ~Falsy(monitor.name)

-----------------------------------------------------------------------------
(* The definitions a run is given *)

Tags == {"a", "b"}
NoKey == "<absent>"

\* a raw monitor mapping of a definition file
RawMonitor(tag, name, type) ==
    LET base == [id |-> 7, name |-> name, monitor_type |-> type]
        tagged == IF tag = NoKey THEN base ELSE Put(base, "tag", tag)
    IN  IF type = "GROUP"
        THEN Put(tagged, "type_data",
                 [monitors |-> << [tag |-> "a", selected |-> TRUE],
                                  [tag |-> "b", selected |-> TRUE] >>])
        ELSE tagged

\* named API monitors with every tag and without one, an API monitor with
\* an empty name, and a GROUP monitor over the children "a" and "b"
RawMonitors ==
    { RawMonitor(tag, "n", "API") : tag \in Tags \cup {NoKey} }
    \cup { RawMonitor("a", "", "API"), RawMonitor("b", "n", "GROUP") }

SeqsUpTo(S, n) == UNION { [1..k -> S] : k \in 0..n }

\* a monitor as the remote service stores and returns it
ServerMonitor(id, tag, name) == [id |-> id, tag |-> tag, name |-> name]

RemoteChoices == { <<>>, << ServerMonitor(1, "a", "n") >> }

\* the files holding the monitors ms: one file, or two files with the first
\* k monitors in the first (which may be empty)
OneFile(ms) == << [kind |-> "ok", monitors |-> ms] >>
TwoFiles(ms, k) == << [kind |-> "ok", monitors |-> SubSeq(ms, 1, k)],
                      [kind |-> "ok", monitors |-> SubSeq(ms, k + 1, Len(ms))] >>

\* a file that does not hold a list of monitors: its text is not YAML, its
\* mapping has no `monitors` key, or `monitors` is the string "x"
BadKinds == {"unparseable", "no_monitors_key", "not_a_list"}
BadFile(kind) == [kind |-> kind, monitors |-> <<>>]

\* the folders a run may be given: no file, one or two files holding up to
\* MaxMonitors monitors, or a bad file followed by a file holding fewer
Batches ==
    {<<>>} \cup UNION { {OneFile(ms)} \cup { TwoFiles(ms, k) : k \in 0..(Len(ms) - 1) } :
                        ms \in SeqsUpTo(RawMonitors, MaxMonitors) \ {<<>>} }
           \cup { <<BadFile(kind)>> \o OneFile(ms) :
                    kind \in BadKinds, ms \in SeqsUpTo(RawMonitors, MaxMonitors - 1) }

\* what a run finds when it sets up: all is well, load_config raises, or the
\* folder path names nothing or something that is not a directory
Setups == {"ok", "no_config", "no_folder", "not_a_directory"}

-----------------------------------------------------------------------------
(* The remote service: GET /api/monitor?tag=<tag> and POST /api/monitor *)

\* "200": status 200 with the JSON list of the monitors carrying the tag;
\* "non200": another status; "badjson": status 200 with a body that is not
\* JSON; "neterr": the connection fails (conn.request/getresponse raise)
GetAnswers == {"200", "non200", "badjson", "neterr"}
\* "201": created; "non201": another status; "neterr": the connection fails
PostAnswers == {"201", "non201", "neterr"}

WithTag(tag) == SelectSeq(remote, LAMBDA m : m.tag = tag)

\* the record the service stores for an accepted POST
Stored(payload) ==
    ServerMonitor(Len(remote) + 1, Get(payload, "tag", Null), Get(payload, "name", Null))

\* the service putting the record in the place of what it held
Accepted_Replacing(payload) == << Stored(payload) >>

\* the monitors of the service after it answered 201 to POST /api/monitor
Accepted(payload) == Append(remote, Stored(payload))

Request(method, purpose, tag, answer, body, payload) ==
    [ run |-> run, method |-> method, purpose |-> purpose, tag |-> tag,
      answer |-> answer, body |-> body, payload |-> payload, fi |-> fi, mi |-> mi ]

-----------------------------------------------------------------------------
(* Loading one definition file *)

RECURSIVE FromDicts(_)
\* monitor.py load_monitors_from_yaml, the loop over config["monitors"]: a
\* record whose conversion raises is logged and left out
FromDicts(raw) ==
    IF raw = <<>> THEN <<>>
    ELSE IF monitor_from_dict_raises(Head(raw)) THEN FromDicts(Tail(raw))
         ELSE <<monitor_from_dict(Head(raw))>> \o FromDicts(Tail(raw))

\* monitor.py load_monitors_from_yaml: the Monitor objects of a file; a file
\* that cannot be parsed, has no `monitors` key or no list under it gives []
load_monitors_from_yaml(file) ==
    IF file.kind # "ok" THEN <<>> ELSE FromDicts(file.monitors)

\* main.py cmd_apply 308-311: the call that raises for the file, "" if none:
\* yaml.safe_load is not guarded, and the loop over the string under
\* `monitors` calls .get on a character
main_file_raises(file) ==
    CASE file.kind = "unparseable" -> "yaml.safe_load"
      [] file.kind = "not_a_list" -> "monitor.get"
      [] OTHER -> ""

\* main.py cmd_apply: config.get("monitors", []), the raw mappings of a file
main_file_monitors(file) == file.monitors

-----------------------------------------------------------------------------
(* Answers of the remote as the two clients read them *)

\* KenerAPI.monitor_exists with the length test off by one
KenerAPI_monitor_exists_OffByOne(answer, body) == answer = "200" /\ Len(body) > 1

\* api.py KenerAPI.monitor_exists: a network error, a status other than 200
\* and a body that is not JSON all give False
KenerAPI_monitor_exists(answer, body) == answer = "200" /\ Len(body) > 0

\* main.py monitor_exists with the length test off by one
main_monitor_exists_OffByOne(answer, body) == answer = "200" /\ Len(body) > 1

\* main.py monitor_exists: the same, but a network error is not caught
main_monitor_exists(answer, body) == answer = "200" /\ Len(body) > 0

\* get_monitor_by_tag returning None whatever the answer
main_lookup_found_Never(answer, body) == FALSE

\* main.py get_monitor_by_tag: monitors[0] of a 200 answer with a non-empty list
main_lookup_found(answer, body) == answer = "200" /\ Len(body) > 0

\* main.py raising for every answer that is not a success, as a
\* raise_for_status() after each request would
main_raises_ForStatus(answer) == answer \in {"neterr", "non200", "non201"}

\* a request of main.py raises out of cmd_apply (nothing there catches)
main_raises(answer) == answer = "neterr"

\* the entry resolve_group_monitors appends for a looked-up child (a dict)
ResolvedChild(child_monitor) ==
    [ id |-> Get(child_monitor, "id", Null),
      tag |-> Get(child_monitor, "tag", Null),
      name |-> Get(child_monitor, "name", Null),
      selected |-> TRUE ]

RECURSIVE SkipUntagged(_)
\* the loop of resolve_group_monitors passes over children without a tag
SkipUntagged(children) ==
    IF children = <<>> THEN <<>>
    ELSE IF Falsy(Get(Head(children), "tag", Null)) THEN SkipUntagged(Tail(children))
         ELSE children

-----------------------------------------------------------------------------
(* cmd_apply, step by step; a step ends with the answer to a request *)

\* the loop over the files moves on
NextFile ==
    /\ monitors' = <<>>
    /\ mi' = 0
    /\ cur' = EmptyDict
    /\ kids' = <<>>
    /\ resolved' = <<>>
    /\ IF fi < Len(files)
       THEN pc' = "File" /\ fi' = fi + 1
       ELSE pc' = "Done" /\ fi' = 0
    /\ UNCHANGED raised

\* the loop over the monitors of a file starting over at its end
NextMonitor_StartOver ==
    /\ pc' = "Monitor"
    /\ mi' = IF mi < Len(monitors) THEN mi + 1 ELSE 1
    /\ cur' = EmptyDict
    /\ kids' = <<>>
    /\ resolved' = <<>>
    /\ UNCHANGED <<fi, monitors, raised>>

\* the loop over the monitors of a file moves on (`continue`, or the end of
\* the loop body)
NextMonitor ==
    IF mi < Len(monitors)
    THEN /\ pc' = "Monitor"
         /\ mi' = mi + 1
         /\ cur' = EmptyDict
         /\ kids' = <<>>
         /\ resolved' = <<>>
         /\ UNCHANGED <<fi, monitors, raised>>
    ELSE NextFile

\* an exception raised by the call `site` leaves cmd_apply
Raise(site) ==
    /\ pc' = "Crashed"
    /\ raised' = site
    /\ fi' = 0
    /\ mi' = 0
    /\ monitors' = <<>>
    /\ cur' = EmptyDict
    /\ kids' = <<>>
    /\ resolved' = <<>>

\* main.py resolve_group_monitors from the child list `children` on, with
\* `acc` resolved so far, then apply_monitor_defaults.  Stops in "Resolve"
\* before the next lookup, or in "Create" with the record to submit.
main_resolve_from(monitor, children, acc) ==
    LET rest == SkipUntagged(children) IN
    IF rest # <<>>
    THEN /\ pc' = "Resolve"
         /\ cur' = monitor
         /\ kids' = rest
         /\ resolved' = acc
         /\ UNCHANGED <<fi, mi, monitors, raised>>
    ELSE IF "type_data" \notin DOMAIN monitor
         THEN Raise("monitor[type_data]")   \* monitor["type_data"]["monitors"] = ...: KeyError
         ELSE /\ pc' = "Create"
              /\ cur' = main_apply_monitor_defaults(
                            Put(monitor, "type_data",
                                Put(monitor["type_data"], "monitors", acc)))
              /\ kids' = <<>>
              /\ resolved' = <<>>
              /\ UNCHANGED <<fi, mi, monitors, raised>>

\* main.py cmd_apply lines 321-322 for the monitor: resolve, then defaults
main_resolve_and_default(monitor) ==
    IF Get(monitor, "monitor_type", Null) # "GROUP"
    THEN /\ pc' = "Create"
         /\ cur' = main_apply_monitor_defaults(monitor)
         /\ kids' = <<>>
         /\ resolved' = <<>>
         /\ UNCHANGED <<fi, mi, monitors, raised>>
    ELSE main_resolve_from(monitor,
             Get(Get(monitor, "type_data", EmptyDict), "monitors", <<>>), <<>>)

\* a request answered with a failure uses up one of the MaxFaults faults
Answered(answer, good) ==
    IF answer = good THEN faults' = faults
    ELSE faults < MaxFaults /\ faults' = faults + 1

\* the setup is taken for good whatever was found
setup_fails_Never(found) == FALSE

\* load_config or load_yaml_files_from_folder raises (cli.py 33-37 and
\* 48-52, main.py 294 and 304)
setup_fails(found) == found # "ok"

\* cmd_apply up to the loop over the files (cli.py 33-58, main.py 294-304)
cmd_apply_start ==
    /\ pc = "Idle"
    /\ seen_tags' = {}
    /\ monitors' = <<>>
    /\ mi' = 0
    /\ IF setup_fails(setup)
       THEN \* cli.py returns from its except clauses; main.py lets
            \* load_config or load_yaml_files_from_folder raise
            /\ fi' = 0
            /\ IF impl = "cli"
               THEN pc' = "Done" /\ raised' = ""
               ELSE /\ pc' = "Crashed"
                    /\ raised' = IF setup = "no_config" THEN "load_config"
                                 ELSE "load_yaml_files_from_folder"
       ELSE /\ raised' = ""
            /\ IF files = <<>>
               THEN pc' = "Done" /\ fi' = 0
               ELSE pc' = "File" /\ fi' = 1
    /\ UNCHANGED <<impl, files, remote, run, cur, kids, resolved, log, snap, faults>>
    /\ UNCHANGED <<fn, input, output, setup, config_file>>

\* the head of the loop over the files (cli.py 59-64, main.py 306-311)
load_file ==
    /\ pc = "File"
    /\ LET loaded == IF impl = "cli" THEN load_monitors_from_yaml(files[fi])
                     ELSE main_file_monitors(files[fi])
       IN  IF impl = "main" /\ main_file_raises(files[fi]) # ""
           THEN Raise(main_file_raises(files[fi]))
           ELSE IF loaded = <<>>
           THEN NextFile
           ELSE /\ pc' = "Monitor"
                /\ monitors' = loaded
                /\ mi' = 1
                /\ UNCHANGED <<fi, cur, kids, resolved, raised>>
    /\ UNCHANGED <<impl, files, remote, run, seen_tags, log, snap, faults>>
    /\ UNCHANGED <<fn, input, output, setup, config_file>>

\* cli.py 66-79: the checks made before the remote is asked
cli_check_monitor ==
    /\ pc = "Monitor"
    /\ impl = "cli"
    /\ LET monitor == monitors[mi]
           tag == monitor.tag
       IN  IF Falsy(tag) \/ tag \in seen_tags
           THEN NextMonitor /\ UNCHANGED seen_tags
           ELSE /\ seen_tags' = seen_tags \cup {tag}
                /\ IF ~validate_monitor(monitor)
                   THEN NextMonitor
                   ELSE /\ pc' = "Exists"
                        /\ cur' = monitor
                        /\ UNCHANGED <<fi, mi, monitors, kids, resolved, raised>>
    /\ UNCHANGED <<impl, files, remote, run, log, snap, faults>>
    /\ UNCHANGED <<fn, input, output, setup, config_file>>

\* main.py 312-313: `tag and monitor_exists(...)` asks the remote only for a
\* truthy tag; without one the monitor goes on to resolve, defaults, create
main_check_monitor ==
    /\ pc = "Monitor"
    /\ impl = "main"
    /\ LET monitor == monitors[mi]
       IN  IF ~Falsy(Get(monitor, "tag", Null))
           THEN /\ pc' = "Exists"
                /\ cur' = monitor
                /\ UNCHANGED <<fi, mi, monitors, kids, resolved, raised>>
           ELSE main_resolve_and_default(monitor)
    /\ UNCHANGED <<impl, files, remote, run, seen_tags, log, snap, faults>>
    /\ UNCHANGED <<fn, input, output, setup, config_file>>

\* the existence query: KenerAPI.monitor_exists (api.py 30-67) called at
\* cli.py 81, monitor_exists (main.py 132-155) called at main.py 313
monitor_exists ==
    /\ pc = "Exists"
    /\ \E answer \in GetAnswers :
         LET tag == Get(cur, "tag", Null)
             body == IF answer = "200" THEN WithTag(tag) ELSE <<>>
         IN  /\ Answered(answer, "200")
             /\ log' = Append(log, Request("GET", "exists", tag, answer, body, EmptyDict))
             /\ IF impl = "cli"
                THEN IF KenerAPI_monitor_exists(answer, body)
                     THEN NextMonitor
                     ELSE /\ pc' = "Create"
                          /\ UNCHANGED <<fi, mi, monitors, cur, kids, resolved, raised>>
                ELSE IF main_raises(answer)
                     THEN Raise("monitor_exists")
                     ELSE IF main_monitor_exists(answer, body)
                          THEN NextMonitor
                          ELSE main_resolve_and_default(cur)
    /\ UNCHANGED <<impl, files, remote, run, seen_tags, snap>>
    /\ UNCHANGED <<fn, input, output, setup, config_file>>

\* one lookup of resolve_group_monitors: get_monitor_by_tag (main.py 158-186)
\* called at main.py 203
get_monitor_by_tag ==
    /\ pc = "Resolve"
    /\ \E answer \in GetAnswers :
         LET tag == Head(kids)["tag"]
             body == IF answer = "200" THEN WithTag(tag) ELSE <<>>
         IN  /\ Answered(answer, "200")
             /\ log' = Append(log, Request("GET", "lookup", tag, answer, body, EmptyDict))
             /\ IF main_raises(answer)
                THEN Raise("get_monitor_by_tag")
                ELSE main_resolve_from(cur, Tail(kids),
                         IF main_lookup_found(answer, body)
                         THEN Append(resolved, ResolvedChild(body[1]))
                         ELSE resolved)
    /\ UNCHANGED <<impl, files, remote, run, seen_tags, snap>>
    /\ UNCHANGED <<fn, input, output, setup, config_file>>

\* KenerAPI.create_monitor (api.py 189-220) called at cli.py 88 with a Monitor
\* object: it is not a dict, so the method logs an error and returns
KenerAPI_create_monitor ==
    /\ pc = "Create"
    /\ impl = "cli"
    /\ IF ~IsDict(cur)
       THEN NextMonitor /\ UNCHANGED <<remote, log, faults>>
       ELSE \E answer \in PostAnswers :
              /\ Answered(answer, "201")
              /\ log' = Append(log, Request("POST", "create", Get(cur, "tag", Null),
                                            answer, <<>>, cur))
              /\ remote' = IF answer = "201" THEN Accepted(cur) ELSE remote
              /\ NextMonitor
    /\ UNCHANGED <<impl, files, run, seen_tags, snap>>
    /\ UNCHANGED <<fn, input, output, setup, config_file>>

\* create_monitor sending the request again after an answer other than 201
main_create_monitor_Retry ==
    /\ pc = "Create"
    /\ impl = "main"
    /\ \E answer \in PostAnswers :
         /\ Answered(answer, "201")
         /\ log' = Append(log, Request("POST", "create", Get(cur, "tag", Null),
                                       answer, <<>>, cur))
         /\ remote' = IF answer = "201" THEN Accepted(cur) ELSE remote
         /\ IF answer # "201"
            THEN UNCHANGED <<pc, fi, mi, monitors, cur, kids, resolved, raised>>
            ELSE NextMonitor
    /\ UNCHANGED <<impl, files, run, seen_tags, snap>>
    /\ UNCHANGED <<fn, input, output, setup, config_file>>

\* create_monitor (main.py 245-260) called at main.py 323
main_create_monitor ==
    /\ pc = "Create"
    /\ impl = "main"
    /\ \E answer \in PostAnswers :
         /\ Answered(answer, "201")
         /\ log' = Append(log, Request("POST", "create", Get(cur, "tag", Null),
                                       answer, <<>>, cur))
         /\ remote' = IF answer = "201" THEN Accepted(cur) ELSE remote
         /\ IF main_raises(answer) THEN Raise("create_monitor") ELSE NextMonitor
    /\ UNCHANGED <<impl, files, run, seen_tags, snap>>
    /\ UNCHANGED <<fn, input, output, setup, config_file>>

\* the command is invoked again on the same definitions
run_again ==
    /\ pc \in {"Done", "Crashed"}
    /\ run = 1
    /\ run' = 2
    /\ pc' = "Idle"
    /\ snap' = remote
    /\ UNCHANGED <<impl, files, remote, fi, monitors, mi, seen_tags, cur, kids,
                   resolved, log, faults, raised>>
    /\ UNCHANGED <<fn, input, output, setup, config_file>>

\* no helper function is applied on its own
NoCall == fn = "" /\ input = <<>> /\ output = <<>>

Init ==
    /\ impl \in {"cli", "main"}
    /\ files \in Batches
    /\ remote \in RemoteChoices
    /\ run = 1
    /\ pc = "Idle"
    /\ fi = 0
    /\ monitors = <<>>
    /\ mi = 0
    /\ seen_tags = {}
    /\ cur = EmptyDict
    /\ kids = <<>>
    /\ resolved = <<>>
    /\ log = <<>>
    /\ snap = <<>>
    /\ faults = 0
    /\ setup \in Setups
    /\ raised = ""
    /\ NoCall
    /\ config_file = NoConfigFile

Next ==
    \/ cmd_apply_start
    \/ load_file
    \/ cli_check_monitor
    \/ main_check_monitor
    \/ monitor_exists
    \/ get_monitor_by_tag
    \/ KenerAPI_create_monitor
    \/ main_create_monitor
    \/ run_again

Spec == Init /\ [][Next]_vars

\* one invocation of cmd_apply: the command is not run again
NextOnce ==
    \/ cmd_apply_start
    \/ load_file
    \/ cli_check_monitor
    \/ main_check_monitor
    \/ monitor_exists
    \/ get_monitor_by_tag
    \/ KenerAPI_create_monitor
    \/ main_create_monitor

SpecOnce == Init /\ [][NextOnce]_vars

-----------------------------------------------------------------------------
(* Reading the request log *)

Last(q) == q[Len(q)]

\* the k-th smallest member of a set of positions
NthOf(S, k) == CHOOSE i \in S : Cardinality({ j \in S : j <= i }) = k

IsCreate(e) == e.method = "POST"
IsExistsQuery(e) == e.method = "GET" /\ e.purpose = "exists"
\* the existence query was answered 200 with a non-empty JSON list
ReportedExisting(e) == IsExistsQuery(e) /\ e.answer = "200" /\ e.body # <<>>
SameMonitor(e, g) == e.run = g.run /\ e.fi = g.fi /\ e.mi = g.mi

\* the positions <<file, monitor>> of the monitor definitions
Positions ==
    { p \in (1..Len(files)) \X (1..MaxMonitors) : p[2] <= Len(files[p[1]].monitors) }
Before(p, q) == p[1] < q[1] \/ (p[1] = q[1] /\ p[2] < q[2])
RawAt(p) == files[p[1]].monitors[p[2]]
TagAt(p) == Get(RawAt(p), "tag", Null)

\* the definition at p has tag, name and monitor_type
ValidAt(p) ==
    /\ ~Falsy(TagAt(p))
    /\ ~Falsy(Get(RawAt(p), "name", Null))
    /\ ~Falsy(Get(RawAt(p), "monitor_type", Null))
\* no earlier definition carries the tag of the definition at p
FirstWithTag(p) == \A q \in Positions : Before(q, p) => TagAt(q) # TagAt(p)

CreatedAt(r, p) ==
    \E j \in DOMAIN log : IsCreate(log[j]) /\ log[j].run = r /\ <<log[j].fi, log[j].mi>> = p
ReportedExistingAt(r, p) ==
    \E j \in DOMAIN log :
        ReportedExisting(log[j]) /\ log[j].run = r /\ <<log[j].fi, log[j].mi>> = p

\* the run has gone on past the monitor at p
MovedPast(p) ==
    \/ pc = "Done"
    \/ pc \in {"File", "Monitor", "Exists", "Resolve", "Create"} /\ Before(p, <<fi, mi>>)

-----------------------------------------------------------------------------
(* C1: idempotence of apply *)

AllReportedExisting == \A p \in Positions : ReportedExistingAt(2, p)

-----------------------------------------------------------------------------
(* C2: duplicate-tag rejection *)

\* C2: no two create requests of one run carry the same tag.
C2_NoTwoCreatesForOneTag ==
    \A i, j \in DOMAIN log :
        (i < j /\ IsCreate(log[i]) /\ IsCreate(log[j]) /\ log[i].run = log[j].run
           /\ log[i].tag # Null)
        => log[i].tag # log[j].tag

-----------------------------------------------------------------------------
(* C3: partial-failure isolation *)

\* C3: a create request answered with a status other than 201 does not end
\* the run, and when the run is done every later monitor that is valid, first
\* with its tag and not reported as existing has been submitted to create.
C3_FailedCreateIsolated ==
    /\ [][ (Len(log') = Len(log) + 1 /\ IsCreate(Last(log'))
              /\ Last(log').answer = "non201") => pc' # "Crashed" ]_vars
    /\ [](pc = "Done" =>
            \A i \in DOMAIN log :
                (IsCreate(log[i]) /\ log[i].run = run /\ log[i].answer = "non201")
                => \A p \in Positions :
                      (Before(<<log[i].fi, log[i].mi>>, p) /\ ValidAt(p)
                         /\ FirstWithTag(p) /\ ~ReportedExistingAt(run, p))
                      => CreatedAt(run, p))

\* a finished run in which a create was refused and a later monitor was
\* submitted all the same
C3_Witness ==
    /\ pc = "Done"
    /\ \E i, j \in DOMAIN log :
         /\ i < j /\ log[i].run = run /\ log[j].run = run
         /\ IsCreate(log[i]) /\ log[i].answer = "non201"
         /\ IsCreate(log[j]) /\ Before(<<log[i].fi, log[i].mi>>, <<log[j].fi, log[j].mi>>)
         /\ ValidAt(<<log[j].fi, log[j].mi>>) /\ FirstWithTag(<<log[j].fi, log[j].mi>>)

-----------------------------------------------------------------------------
(* C4: a monitor the remote reports as existing is skipped *)

\* C4: after an existence query answered 200 with a non-empty list, no create
\* request and no child lookup is sent for that monitor, and the run has left
\* that monitor for the next one.
C4_ReportedExistingIsSkipped ==
    \A i \in DOMAIN log :
        ReportedExisting(log[i]) =>
            /\ \A j \in DOMAIN log : (j > i /\ SameMonitor(log[i], log[j])) => FALSE
            /\ ~(run = log[i].run /\ pc \in {"Exists", "Resolve", "Create"}
                   /\ <<fi, mi>> = <<log[i].fi, log[i].mi>>)

\* a monitor was reported as existing and the run went on to ask about the
\* next one
C4_Witness ==
    \E i, j \in DOMAIN log :
        /\ i < j /\ ReportedExisting(log[i]) /\ log[j].run = log[i].run
        /\ Before(<<log[i].fi, log[i].mi>>, <<log[j].fi, log[j].mi>>)

-----------------------------------------------------------------------------
(* C5: every eligible monitor is submitted to create *)

\* C5: once the run has gone on past a monitor that is valid, first with its
\* tag and whose existence query did not report it as existing, a create
\* request for that monitor has been sent.
C5_EligibleMonitorIsSubmitted ==
    \A i \in DOMAIN log :
        LET p == <<log[i].fi, log[i].mi>> IN
        (IsExistsQuery(log[i]) /\ ~ReportedExisting(log[i]) /\ log[i].run = run
           /\ ValidAt(p) /\ FirstWithTag(p) /\ MovedPast(p))
        => CreatedAt(run, p)

-----------------------------------------------------------------------------
(* C6: what a create request carries *)

ResolvedShape(child) ==
    DOMAIN child = {"id", "tag", "name", "selected"} /\ child.selected = TRUE

\* C6: the record of every create request carries created_at and every
\* defaultable field, and if it is a GROUP monitor its type_data.monitors
\* holds only resolved children {id, tag, name, selected}.
C6_CreateCarriesResolvedAndDefaulted ==
    \A i \in DOMAIN log :
        IsCreate(log[i]) =>
            LET sent == log[i].payload IN
            /\ "created_at" \in DOMAIN sent
            /\ \A k \in DOMAIN DefaultKeys : DefaultKeys[k] \in DOMAIN sent
            /\ sent["monitor_type"] = "GROUP" =>
                 /\ "type_data" \in DOMAIN sent
                 /\ "monitors" \in DOMAIN sent["type_data"]
                 /\ \A c \in DOMAIN sent["type_data"]["monitors"] :
                        ResolvedShape(sent["type_data"]["monitors"][c])

\* a create request for a GROUP monitor with a resolved child
C6_Witness ==
    \E i \in DOMAIN log :
        /\ IsCreate(log[i])
        /\ log[i].payload["monitor_type"] = "GROUP"
        /\ log[i].payload["type_data"]["monitors"] # <<>>
        /\ log[i].payload["cron"] = "* * * * *"


-----------------------------------------------------------------------------
(* C11: setup errors abort the run before any work *)

\* C11: when the configuration cannot be loaded or the folder does not exist
\* or is not a directory, the run ends without processing a monitor and
\* without sending a request.
C11_SetupErrorAborts ==
    setup # "ok" =>
        /\ log = <<>>
        /\ pc \in {"Idle", "Done", "Crashed"}
        /\ monitors = <<>> /\ cur = EmptyDict /\ seen_tags = {}
        /\ remote \in RemoteChoices

\* a run that ended on a missing folder although the definitions hold a
\* monitor the remote does not have
C11_Witness ==
    /\ setup = "no_folder"
    /\ pc \in {"Done", "Crashed"}
    /\ \E p \in Positions : ValidAt(p) /\ WithTag(TagAt(p)) = <<>>

-----------------------------------------------------------------------------
(* C12: a file that cannot be loaded is passed over *)

QueriedAt(r, p) ==
    \E j \in DOMAIN log :
        IsExistsQuery(log[j]) /\ log[j].run = r /\ <<log[j].fi, log[j].mi>> = p

\* C12: a definition file that cannot be parsed, has no `monitors` key or
\* whose `monitors` is not a sequence contributes no monitor and does not
\* end the run: the monitors of the later files are processed.
C12_BadFileIsPassedOver ==
    /\ raised \notin {"yaml.safe_load", "monitor.get"}
    /\ \A j \in DOMAIN log : files[log[j].fi].kind = "ok"
    /\ (pc = "Done" /\ setup = "ok") =>
          \A p \in Positions :
              (files[1].kind # "ok" /\ ValidAt(p) /\ FirstWithTag(p)) => QueriedAt(run, p)

-----------------------------------------------------------------------------
(* C13: the validation gate of cli.py cmd_apply *)

\* C13: cli.py cmd_apply sends no existence query and no create request for
\* a monitor whose tag, name or monitor_type is missing or empty, and such a
\* monitor does not end the run.
C13_InvalidMonitorIsSkipped ==
    impl = "cli" =>
        /\ \A j \in DOMAIN log : ValidAt(<<log[j].fi, log[j].mi>>)
        /\ \A p \in Positions :
              (~ValidAt(p) /\ pc \in {"Exists", "Create"}) => <<fi, mi>> # p
        /\ pc # "Crashed"

\* cli.py passed over a monitor without a name and asked the remote about
\* the monitor after it
C13_Witness ==
    /\ impl = "cli"
    /\ \E p, q \in Positions :
         /\ Before(p, q) /\ ~Falsy(TagAt(p)) /\ ~ValidAt(p) /\ QueriedAt(run, q)
         /\ ~QueriedAt(run, p)

-----------------------------------------------------------------------------
(* C14: validation and the duplicate check of cli.py cmd_apply *)

\* the run has reached the monitor at p
Reached(p) == pc \in {"Idle", "Done"} \/ ~Before(<<fi, mi>>, p)

\* no earlier valid definition carries the tag of the definition at p
FirstValidWithTag(p) ==
    \A q \in Positions : (Before(q, p) /\ ValidAt(q)) => TagAt(q) # TagAt(p)

\* C14: cli.py cmd_apply records in seen_tags only the tags of monitors that
\* passed validation, so a valid monitor whose tag was carried before it only
\* by invalid monitors is not rejected as a duplicate: the remote is asked
\* about it.
C14_OnlyValidTagsAreSeen ==
    impl = "cli" =>
        /\ \A t \in seen_tags :
              \E p \in Positions : TagAt(p) = t /\ ValidAt(p) /\ Reached(p)
        /\ \A p \in Positions :
              (setup = "ok" /\ ValidAt(p) /\ FirstValidWithTag(p) /\ MovedPast(p))
                  => QueriedAt(run, p)

-----------------------------------------------------------------------------
(* C15: network failures are contained *)

\* the request failed below HTTP, or its body was not JSON
NetworkFailure(e) == e.answer \in {"neterr", "badjson"}

\* C15: a connection error or a malformed body during an existence query, a
\* child lookup or a create never ends the run, and once the run is done
\* every later monitor that is valid and first with its tag was processed.
C15_NetworkFailureContained ==
    /\ raised \notin {"monitor_exists", "get_monitor_by_tag", "create_monitor"}
    /\ (log # <<>> /\ NetworkFailure(Last(log))) => pc # "Crashed"
    /\ pc = "Done" =>
          \A j \in DOMAIN log :
              (NetworkFailure(log[j]) /\ log[j].run = run) =>
                  \A p \in Positions :
                      (Before(<<log[j].fi, log[j].mi>>, p) /\ ValidAt(p) /\ FirstWithTag(p))
                          => QueriedAt(run, p)

-----------------------------------------------------------------------------
(* C18: apply never deletes or updates *)

\* the positions in log of the create requests answered 201
AcceptedCreates == { j \in DOMAIN log : IsCreate(log[j]) /\ log[j].answer = "201" }

-----------------------------------------------------------------------------
(* C21: the remote calls follow the definitions *)

\* the place of a request among the steps made for one monitor
Stage(e) == CASE e.purpose = "exists" -> 1
              [] e.purpose = "lookup" -> 2
              [] e.purpose = "create" -> 3

\* the request e is not made after the request g of the same run
InOrder(e, g) ==
    \/ Before(<<e.fi, e.mi>>, <<g.fi, g.mi>>)
    \/ <<e.fi, e.mi>> = <<g.fi, g.mi>> /\ Stage(e) <= Stage(g)

\* C21: within a run the requests are made in file order, then in the order
\* of the list of the file, and for one monitor in the order existence query,
\* lookups of the children, create (every request and the one after it are
\* in that order, which is transitive); a request is only made for the
\* monitor the run is at, after the request before it was answered.
C21_CallsFollowDefinitions ==
    /\ \A j \in 2..Len(log) :
          /\ log[j - 1].run <= log[j].run
          /\ log[j - 1].run = log[j].run => InOrder(log[j - 1], log[j])
    /\ (pc \in {"Exists", "Resolve", "Create"} /\ log # <<>> /\ Last(log).run = run) =>
          \/ Before(<<Last(log).fi, Last(log).mi>>, <<fi, mi>>)
          \/ /\ <<Last(log).fi, Last(log).mi>> = <<fi, mi>>
             /\ Stage(Last(log)) <= (CASE pc = "Exists" -> 1
                                       [] pc = "Resolve" -> 2
                                       [] pc = "Create" -> 3)

\* a monitor of the first file was queried and created, then the group of the
\* second file was queried, its two children looked up, and it was created
C21_Witness ==
    /\ Len(log) = 6
    /\ \A j \in 1..6 : log[j].run = 1
    /\ <<log[1].fi, log[1].purpose>> = <<1, "exists">>
    /\ <<log[2].fi, log[2].purpose>> = <<1, "create">>
    /\ <<log[3].fi, log[3].purpose>> = <<2, "exists">>
    /\ <<log[4].fi, log[4].purpose>> = <<2, "lookup">>
    /\ <<log[5].fi, log[5].purpose>> = <<2, "lookup">>
    /\ <<log[6].fi, log[6].purpose>> = <<2, "create">>

-----------------------------------------------------------------------------
(* C22: no request is sent again *)

\* C22: in one run at most one existence query and at most one create are
\* sent for a monitor definition, whatever the answers; a create that failed
\* is not sent again.
C22_NoRetries ==
    \A j \in DOMAIN log : \A i \in 1..(j - 1) :
        SameMonitor(log[i], log[j]) =>
            /\ ~(IsExistsQuery(log[i]) /\ IsExistsQuery(log[j]))
            /\ ~(IsCreate(log[i]) /\ IsCreate(log[j]))

\* a create failed, the run went on with a later monitor and has ended
C22_Witness ==
    /\ pc = "Done"
    /\ \E i, j \in DOMAIN log :
          /\ i < j
          /\ log[i].run = run /\ log[j].run = run
          /\ IsCreate(log[i]) /\ log[i].answer = "non201"
          /\ Before(<<log[i].fi, log[i].mi>>, <<log[j].fi, log[j].mi>>)

-----------------------------------------------------------------------------
(* C25: a failed existence query *)

\* the existence query was not answered 200 with a JSON list
ExistsFailed(e) == IsExistsQuery(e) /\ e.answer # "200"

\* the remote held a monitor with the tag when request j was sent
PresentBefore(j, tag) ==
    \/ \E k \in 1..(Len(remote) - Cardinality(AcceptedCreates)) : remote[k].tag = tag
    \/ \E i \in 1..(j - 1) : i \in AcceptedCreates /\ log[i].tag = tag

\* the run has left the monitor at p behind
LeftBehind(p) == MovedPast(p) \/ pc = "Crashed"

\* a create for a tag the remote holds follows a failed existence query for
\* that tag in the same run
CreateForPresentTagOnlyAfterFailure ==
    \A j \in DOMAIN log :
        (IsCreate(log[j]) /\ ~Falsy(log[j].tag) /\ PresentBefore(j, log[j].tag)) =>
            \E i \in 1..(j - 1) :
                ExistsFailed(log[i]) /\ log[i].run = log[j].run /\ log[i].tag = log[j].tag

\* C25: after an existence query that fails (network error, status other
\* than 200, body that is not JSON) a create is submitted for that monitor;
\* and a create is only sent for a tag the remote holds after the existence
\* query for the tag failed in the run.
C25_FailedQueryFallsThroughToCreate ==
    /\ \A j \in DOMAIN log :
          (ExistsFailed(log[j]) /\ log[j].run = run /\ LeftBehind(<<log[j].fi, log[j].mi>>))
              => CreatedAt(run, <<log[j].fi, log[j].mi>>)
    /\ CreateForPresentTagOnlyAfterFailure

-----------------------------------------------------------------------------
(* C26: termination *)

\* C26: whatever the remote answers (success, refusal, network error, body
\* that is not JSON), a run over definition files that load is on its way
\* to Done: no exception ends it before the loop over the files is through.
C26_RunReachesDone ==
    (setup = "ok" /\ \A f \in DOMAIN files : files[f].kind = "ok") => pc # "Crashed"

-----------------------------------------------------------------------------
(* C27: a group of a later file over a child created from an earlier file *)

\* the id the service gave the monitor of the accepted create i
IdAssigned(i) ==
    remote[Len(remote) - Cardinality(AcceptedCreates)
           + Cardinality({ a \in AcceptedCreates : a <= i })].id

\* the tags of the children the definition of request j lists
ChildTagsOf(j) ==
    LET children == Get(Get(RawAt(<<log[j].fi, log[j].mi>>), "type_data", EmptyDict),
                        "monitors", <<>>)
    IN  { children[c].tag : c \in { x \in DOMAIN children : "tag" \in DOMAIN children[x] } }

\* the requests that create a GROUP monitor
GroupCreates ==
    { j \in DOMAIN log :
        IsCreate(log[j]) /\ Get(log[j].payload, "monitor_type", Null) = "GROUP" }

\* request j creates a GROUP monitor, and the accepted create i of the same
\* run, for a definition of an earlier file, carries a tag the group lists
GroupOverCreatedChild(j, i) ==
    /\ j \in GroupCreates
    /\ i \in AcceptedCreates
    /\ i < j
    /\ log[i].run = log[j].run
    /\ log[i].fi < log[j].fi
    /\ log[i].tag \in ChildTagsOf(j)

\* the create request j lists a child with the tag and the id
Carries(j, tag, id) ==
    \E c \in DOMAIN log[j].payload.type_data.monitors :
        /\ log[j].payload.type_data.monitors[c].tag = tag
        /\ log[j].payload.type_data.monitors[c].id = id

\* the lookups made for the monitor of request j, for the tag, answered 200
AnsweredLookups(j, tag) ==
    { k \in 1..(j - 1) : /\ SameMonitor(log[k], log[j])
                         /\ log[k].purpose = "lookup"
                         /\ log[k].tag = tag
                         /\ log[k].answer = "200" }

\* C27 as stated: when a monitor of an earlier file was created in the run,
\* the create request of a GROUP monitor of a later file that lists its tag
\* carries the child with the id the service gave it.
C27_GroupCarriesCreatedChild ==
    \A j \in GroupCreates : \A i \in 1..(j - 1) :
        GroupOverCreatedChild(j, i) => Carries(j, log[i].tag, IdAssigned(i))

\* C27, amended: ... and the lookup of the tag made for the group was
\* answered 200, the create request of the group carries a child with that
\* tag and the id of the first monitor of the answer; that is the id the
\* service gave the created child when it held no monitor with the tag before.
C27_GroupCarriesLookedUpChild ==
    \A j \in GroupCreates : \A i \in 1..(j - 1) :
        GroupOverCreatedChild(j, i) =>
            \A k \in AnsweredLookups(j, log[i].tag) :
                /\ log[k].body # <<>>
                /\ Carries(j, log[i].tag, log[k].body[1].id)
                /\ ~PresentBefore(i, log[i].tag) => log[k].body[1].id = IdAssigned(i)

\* "a" of the first file was created, then the group of the second file
\* looked it up and was submitted with it
C27_Witness ==
    \E j, i \in DOMAIN log :
        /\ GroupOverCreatedChild(j, i)
        /\ AnsweredLookups(j, log[i].tag) # {}
        /\ log[i].tag = "a"
        /\ Carries(j, "a", IdAssigned(i))
        /\ log[j].answer = "201"

-----------------------------------------------------------------------------
(* The helper functions on their own: a helper is applied once to an input *)

\* cmd_apply is not running
ApplyOff ==
    /\ impl = "none"
    /\ files = <<>>
    /\ remote = <<>>
    /\ run = 0
    /\ pc = "Off"
    /\ fi = 0
    /\ monitors = <<>>
    /\ mi = 0
    /\ seen_tags = {}
    /\ cur = EmptyDict
    /\ kids = <<>>
    /\ resolved = <<>>
    /\ log = <<>>
    /\ snap = <<>>
    /\ faults = 0
    /\ setup = "ok"
    /\ raised = ""
    /\ config_file = NoConfigFile

ApplyVars == <<impl, files, remote, run, pc, fi, monitors, mi, seen_tags, cur,
               kids, resolved, log, snap, faults, setup, raised, config_file>>

-----------------------------------------------------------------------------
(* resolve_group_monitors (monitor.py, api.py) *)

MaxChildren == 3    \* child references of a group monitor

ChildTags == {"a", "b", "c"}
IdOf == [a |-> 1, b |-> 2, c |-> 3]
NameOf == [a |-> "A", b |-> "B", c |-> "C"]

\* a child reference of a definition file: with a tag, or without one
ChildRefs == { [tag |-> t] : t \in ChildTags } \cup { [name |-> "untagged"] }

\* the monitor the remote service holds under a tag
LookedUp(tag) == ServerMonitor(IdOf[tag], tag, NameOf[tag])

\* a monitor of either type over a list of n children, and for every child
\* whether the lookup made for it returns a monitor (TRUE) or None (FALSE)
ResolveInputs(n) ==
    { [ monitor |-> [id |-> 7, name |-> "g", tag |-> "g", monitor_type |-> type,
                     type_data |-> [monitors |-> children]],
        answers |-> answers ] :
      type \in {"GROUP", "API"},
      children \in [1..n -> ChildRefs],
      answers \in [1..n -> BOOLEAN] }

\* values a definition file can give type_data.monitors that are not a list:
\* a string, an integer
NotLists == {"abc", "7"}

\* isinstance(v, list)
IsList(v) == ToString(v) \notin { ToString(s) : s \in NotLists }

\* child_monitors after `if not isinstance(child_monitors, list): child_monitors = []`
ListOrEmpty(v) == IF IsList(v) THEN v ELSE <<>>

RECURSIVE resolved_children_StopAtFailure(_, _, _)
\* the loop over child_monitors leaving at the first lookup that fails
resolved_children_StopAtFailure(child_monitors, answers, i) ==
    IF i > Len(child_monitors) THEN <<>>
    ELSE LET child_tag == Get(child_monitors[i], "tag", Null)
             rest == resolved_children_StopAtFailure(child_monitors, answers, i + 1)
         IN  IF Falsy(child_tag) THEN rest
             ELSE IF answers[i] THEN <<ResolvedChild(LookedUp(child_tag))>> \o rest
                  ELSE <<>>

RECURSIVE resolved_children(_, _, _)
\* the loop `for child in child_monitors` from child i on: a child without a
\* tag is passed over, a child whose lookup returns a monitor is appended,
\* a child whose lookup returns None is passed over
resolved_children(child_monitors, answers, i) ==
    IF i > Len(child_monitors) THEN <<>>
    ELSE LET child_tag == Get(child_monitors[i], "tag", Null)
             rest == resolved_children(child_monitors, answers, i + 1)
         IN  IF Falsy(child_tag) THEN rest
             ELSE IF answers[i] THEN <<ResolvedChild(LookedUp(child_tag))>> \o rest
                  ELSE rest

RECURSIVE looked_up_tags_StopAtUntagged(_, _)
\* the loop ending at the first child without a tag
looked_up_tags_StopAtUntagged(child_monitors, i) ==
    IF i > Len(child_monitors) THEN <<>>
    ELSE LET child_tag == Get(child_monitors[i], "tag", Null)
             rest == looked_up_tags_StopAtUntagged(child_monitors, i + 1)
         IN  IF Falsy(child_tag) THEN <<>> ELSE <<child_tag>> \o rest

RECURSIVE looked_up_tags(_, _)
\* the tags the loop hands to the lookup function, in call order
looked_up_tags(child_monitors, i) ==
    IF i > Len(child_monitors) THEN <<>>
    ELSE LET child_tag == Get(child_monitors[i], "tag", Null)
             rest == looked_up_tags(child_monitors, i + 1)
         IN  IF Falsy(child_tag) THEN rest ELSE <<child_tag>> \o rest

\* monitor.py resolve_group_monitors (on a Monitor object)
resolve_group_monitors(monitor, answers) ==
    IF IsDict(monitor) THEN monitor
    ELSE IF monitor.monitor_type # EnumMember("MonitorType", "GROUP") THEN monitor
    ELSE LET type_data == monitor.type_data
             child_monitors == ListOrEmpty(Get(type_data, "monitors", <<>>))
         IN  [ monitor EXCEPT !.type_data =
                   Put(@, "monitors", resolved_children(child_monitors, answers, 1)) ]

\* KenerAPI.resolve_group_monitors resolving the children whatever the type
KenerAPI_resolve_group_monitors_AnyType(monitor, answers) ==
    IF ~IsDict(monitor) THEN monitor
    ELSE LET type_data == Get(monitor, "type_data", EmptyDict)
             child_monitors == ListOrEmpty(Get(type_data, "monitors", <<>>))
         IN  Put(monitor, "type_data",
                 Put(type_data, "monitors", resolved_children(child_monitors, answers, 1)))

\* api.py KenerAPI.resolve_group_monitors (on a dict)
KenerAPI_resolve_group_monitors(monitor, answers) ==
    IF ~IsDict(monitor) THEN monitor
    ELSE IF Get(monitor, "monitor_type", Null) # "GROUP" THEN monitor
    ELSE LET type_data == Get(monitor, "type_data", EmptyDict)
             child_monitors == ListOrEmpty(Get(type_data, "monitors", <<>>))
         IN  Put(monitor, "type_data",
                 Put(type_data, "monitors", resolved_children(child_monitors, answers, 1)))

\* main.py resolve_group_monitors: the statement that raises, "" when none does
main_resolve_group_monitors_raises(monitor) ==
    IF Get(monitor, "monitor_type", Null) # "GROUP" THEN ""
    ELSE LET type_data == Get(monitor, "type_data", EmptyDict)
             child_monitors == Get(type_data, "monitors", <<>>)
         IN  IF ~IsList(child_monitors)
             THEN "for child in child_monitors"   \* TypeError, or child.get: AttributeError
             ELSE IF "type_data" \notin DOMAIN monitor
                  THEN "monitor[type_data]"       \* KeyError
                  ELSE ""

\* main.py resolve_group_monitors (on a dict) where it does not raise
main_resolve_group_monitors(monitor, answers) ==
    IF Get(monitor, "monitor_type", Null) # "GROUP" THEN monitor
    ELSE LET type_data == Get(monitor, "type_data", EmptyDict)
             child_monitors == Get(type_data, "monitors", <<>>)
         IN  Put(monitor, "type_data",
                 Put(monitor["type_data"], "monitors",
                     resolved_children(child_monitors, answers, 1)))

\* the lookups a resolution of the monitor makes
resolve_lookups(type, type_data) ==
    IF type # "GROUP" THEN <<>>
    ELSE looked_up_tags(ListOrEmpty(Get(type_data, "monitors", <<>>)), 1)

\* monitor.py resolve_group_monitors applied to the Monitor built from the input
resolve_group_monitors_call ==
    /\ fn = ""
    /\ ~monitor_from_dict_raises(input.monitor)
    /\ fn' = "resolve_group_monitors"
    /\ LET monitor == monitor_from_dict(input.monitor) IN
       output' = [ value |-> resolve_group_monitors(monitor, input.answers),
                   lookups |-> resolve_lookups(monitor.monitor_type.value,
                                               monitor.type_data) ]
    /\ UNCHANGED input
    /\ UNCHANGED ApplyVars

\* KenerAPI.resolve_group_monitors applied to the input dict
KenerAPI_resolve_group_monitors_call ==
    /\ fn = ""
    /\ fn' = "KenerAPI.resolve_group_monitors"
    /\ output' = [ value |-> KenerAPI_resolve_group_monitors(input.monitor, input.answers),
                   lookups |-> resolve_lookups(Get(input.monitor, "monitor_type", Null),
                                               Get(input.monitor, "type_data", EmptyDict)) ]
    /\ UNCHANGED input
    /\ UNCHANGED ApplyVars

InitResolve ==
    /\ ApplyOff
    /\ fn = ""
    /\ \E n \in 0..MaxChildren : input \in ResolveInputs(n)
    /\ output = <<>>

NextResolve ==
    \/ resolve_group_monitors_call
    \/ KenerAPI_resolve_group_monitors_call

SpecResolve == InitResolve /\ [][NextResolve]_vars

ResolveFns == {"resolve_group_monitors", "KenerAPI.resolve_group_monitors"}

\* the positions of the children that have a tag and whose lookup returned a monitor
Found(children, answers) ==
    { i \in DOMAIN children : "tag" \in DOMAIN children[i] /\ answers[i] }

\* C7: for a GROUP monitor, after resolve type_data.monitors is, in input
\* order, the references whose lookup by tag returned a monitor, each entry
\* {id, tag, name} of the looked-up monitor with selected = true; a failed
\* lookup removes only that child
C7_ResolvedIsFoundSubsequence ==
    (fn \in ResolveFns /\ input.monitor.monitor_type = "GROUP") =>
        LET children == input.monitor.type_data.monitors
            found == Found(children, input.answers)
            out == output.value.type_data.monitors
        IN  /\ Len(out) = Cardinality(found)
            /\ \A k \in 1..Len(out) :
                  LET tag == children[NthOf(found, k)].tag IN
                  out[k] = [id |-> IdOf[tag], tag |-> tag, name |-> NameOf[tag],
                            selected |-> TRUE]

\* children A, B, C with the lookup failing for B only: A and C are kept
C7_Witness ==
    /\ fn \in ResolveFns
    /\ input.monitor.monitor_type = "GROUP"
    /\ input.monitor.type_data.monitors = <<[tag |-> "a"], [tag |-> "b"], [tag |-> "c"]>>
    /\ input.answers = <<TRUE, FALSE, TRUE>>
    /\ Len(output.value.type_data.monitors) = 2
    /\ output.value.type_data.monitors[1].tag = "a"
    /\ output.value.type_data.monitors[2].tag = "c"

\* the positions of the children that have a tag
Tagged(children) == { i \in DOMAIN children : "tag" \in DOMAIN children[i] }

\* C23: resolving a GROUP monitor makes one lookup for every child that has
\* a tag, in the order of the list, and none for a child without a tag, after
\* which the later children are still looked up
C23_OneLookupPerTaggedChild ==
    (fn \in ResolveFns /\ input.monitor.monitor_type = "GROUP") =>
        LET children == input.monitor.type_data.monitors
            tagged == Tagged(children)
        IN  /\ Len(output.lookups) = Cardinality(tagged)
            /\ \A k \in 1..Len(output.lookups) :
                  output.lookups[k] = children[NthOf(tagged, k)].tag

\* a child without a tag, then the tag "b", then "a": b and a are looked up
C23_Witness ==
    /\ fn \in ResolveFns
    /\ input.monitor.monitor_type = "GROUP"
    /\ input.monitor.type_data.monitors =
           <<[name |-> "untagged"], [tag |-> "b"], [tag |-> "a"]>>
    /\ input.answers = <<TRUE, FALSE, TRUE>>
    /\ output.lookups = <<"b", "a">>

\* C20: for a monitor whose monitor_type is not GROUP, resolve returns the
\* monitor it was given with every field, type_data included, unchanged, and
\* makes no lookup
C20_NonGroupUnchanged ==
    (fn \in ResolveFns /\ input.monitor.monitor_type # "GROUP") =>
        /\ output.lookups = <<>>
        /\ output.value = IF fn = "resolve_group_monitors"
                          THEN monitor_from_dict(input.monitor)
                          ELSE input.monitor

\* an API monitor that lists two tagged children whose lookups would succeed
C20_Witness ==
    /\ fn \in ResolveFns
    /\ input.monitor.monitor_type = "API"
    /\ input.monitor.type_data.monitors = <<[tag |-> "a"], [tag |-> "b"]>>
    /\ input.answers = <<TRUE, TRUE>>
    /\ output.value.type_data.monitors = <<[tag |-> "a"], [tag |-> "b"]>>

-----------------------------------------------------------------------------
(* resolve_group_monitors over absent child data (monitor.py, api.py, main.py) *)

\* type_data of a definition without a list of children: no `monitors` key,
\* or a value that is not a list
ChildlessTypeData ==
    { EmptyDict, [url |-> "u"] } \cup { [monitors |-> v] : v \in NotLists }

\* a monitor of either type without type_data, or with childless type_data
ChildlessInputs ==
    LET base(type) == [id |-> 7, name |-> "g", tag |-> "g", monitor_type |-> type] IN
    { [ monitor |-> base(type), answers |-> <<>> ] : type \in {"GROUP", "API"} }
    \cup { [ monitor |-> Put(base(type), "type_data", td), answers |-> <<>> ] :
            type \in {"GROUP", "API"}, td \in ChildlessTypeData }

\* main.py resolve_group_monitors applied to the input dict
main_resolve_group_monitors_call ==
    /\ fn = ""
    /\ fn' = "main.resolve_group_monitors"
    /\ LET site == main_resolve_group_monitors_raises(input.monitor) IN
       output' = [ raised |-> site,
                   value |-> IF site # "" THEN EmptyDict
                             ELSE main_resolve_group_monitors(input.monitor, input.answers),
                   lookups |-> IF ~IsList(Get(Get(input.monitor, "type_data", EmptyDict),
                                              "monitors", <<>>))
                               THEN <<>>
                               ELSE resolve_lookups(Get(input.monitor, "monitor_type", Null),
                                                    Get(input.monitor, "type_data", EmptyDict)) ]
    /\ UNCHANGED input
    /\ UNCHANGED ApplyVars

InitChildData ==
    /\ ApplyOff
    /\ fn = ""
    /\ \/ input \in ChildlessInputs
       \/ \E n \in 0..MaxChildren : input \in ResolveInputs(n)
    /\ output = <<>>

NextChildData ==
    \/ resolve_group_monitors_call
    \/ KenerAPI_resolve_group_monitors_call
    \/ main_resolve_group_monitors_call

SpecChildData == InitChildData /\ [][NextChildData]_vars

\* the monitor has no list of children
Childless(monitor) ==
    \/ "type_data" \notin DOMAIN monitor
    \/ "monitors" \notin DOMAIN monitor.type_data
    \/ ~IsList(monitor.type_data.monitors)

\* C19: resolving a GROUP monitor whose type_data is missing, or whose
\* type_data.monitors is missing or not a list, does not raise, makes no
\* lookup and leaves type_data.monitors the empty list
C19_AbsentChildDataTolerated ==
    (fn # "" /\ input.monitor.monitor_type = "GROUP" /\ Childless(input.monitor)) =>
        /\ fn = "main.resolve_group_monitors" => output.raised = ""
        /\ output.lookups = <<>>
        /\ output.value.type_data.monitors = <<>>

-----------------------------------------------------------------------------
(* apply_monitor_defaults (monitor.py with types.py, api.py, main.py) *)

MaxExplicit == 2    \* defaultable fields a definition sets itself

\* the fields defaulting may fill, and values a definition may give them:
\* for each field a truthy one, and where YAML allows it a falsy one ("", 0,
\* null); "ACTIVE" is a status outside the MonitorStatus enumeration
ExplicitValues ==
    [ cron |-> {"*/5 * * * *", ""},
      day_degraded_minimum_count |-> {"3", "0"},
      day_down_minimum_count |-> {"3", "0"},
      default_status |-> {"UP"},
      degraded_trigger |-> {"trigger", Null},
      down_trigger |-> {"trigger"},
      include_degraded_in_downtime |-> {"YES", ""},
      status |-> {"UP", "ACTIVE"},
      description |-> {"d", ""},
      created_at |-> {"2020-02-02T00:00:00.000Z", ""} ]

\* the explicit settings a definition may give the fields S
ExplicitChoices(S) ==
    { f \in [S -> UNION { ExplicitValues[k] : k \in S }] :
        \A k \in S : f[k] \in ExplicitValues[k] }

\* the monitor mappings of a definition file that set the fields S
DefaultsInputs(S) ==
    { [ monitor |-> f @@ [id |-> 7, name |-> "n", tag |-> "t", monitor_type |-> "API"] ] :
      f \in ExplicitChoices(S) }

\* Monitor.monitor_to_dict: the fields of the object, enumerations by value
monitor_to_dict(monitor) ==
    [ k \in (DOMAIN monitor) \ {"class"} |->
        IF k \in {"default_status", "monitor_type", "status"}
        THEN monitor[k].value ELSE monitor[k] ]

\* monitor.py apply_monitor_defaults applied to the Monitor built from the input
apply_monitor_defaults_call ==
    /\ fn = ""
    /\ ~monitor_from_dict_raises(input.monitor)
    /\ fn' = "apply_monitor_defaults"
    /\ output' = [value |-> apply_monitor_defaults(monitor_from_dict(input.monitor))]
    /\ UNCHANGED input
    /\ UNCHANGED ApplyVars

\* KenerAPI.apply_monitor_defaults applied to the input dict
KenerAPI_apply_monitor_defaults_call ==
    /\ fn = ""
    /\ fn' = "KenerAPI.apply_monitor_defaults"
    /\ output' = [value |-> KenerAPI_apply_monitor_defaults(input.monitor)]
    /\ UNCHANGED input
    /\ UNCHANGED ApplyVars

\* main.py apply_monitor_defaults applied to the input dict
main_apply_monitor_defaults_call ==
    /\ fn = ""
    /\ fn' = "main.apply_monitor_defaults"
    /\ output' = [value |-> main_apply_monitor_defaults(input.monitor)]
    /\ UNCHANGED input
    /\ UNCHANGED ApplyVars

\* monitor.py apply_monitor_defaults applied to its own result
apply_monitor_defaults_twice_call ==
    /\ fn = ""
    /\ ~monitor_from_dict_raises(input.monitor)
    /\ fn' = "apply_monitor_defaults twice"
    /\ LET once == apply_monitor_defaults(monitor_from_dict(input.monitor)) IN
       output' = [once |-> once, value |-> apply_monitor_defaults(once)]
    /\ UNCHANGED input
    /\ UNCHANGED ApplyVars

\* KenerAPI.apply_monitor_defaults applied to its own result
KenerAPI_apply_monitor_defaults_twice_call ==
    /\ fn = ""
    /\ fn' = "KenerAPI.apply_monitor_defaults twice"
    /\ LET once == KenerAPI_apply_monitor_defaults(input.monitor) IN
       output' = [once |-> once, value |-> KenerAPI_apply_monitor_defaults(once)]
    /\ UNCHANGED input
    /\ UNCHANGED ApplyVars

InitDefaults ==
    /\ ApplyOff
    /\ fn = ""
    /\ \E S \in SUBSET (DOMAIN ExplicitValues) :
          /\ Cardinality(S) <= MaxExplicit
          /\ input \in DefaultsInputs(S)
    /\ output = <<>>

NextDefaults ==
    \/ apply_monitor_defaults_call
    \/ KenerAPI_apply_monitor_defaults_call
    \/ main_apply_monitor_defaults_call
    \/ apply_monitor_defaults_twice_call
    \/ KenerAPI_apply_monitor_defaults_twice_call

SpecDefaults == InitDefaults /\ [][NextDefaults]_vars

DefaultsFns == {"apply_monitor_defaults", "KenerAPI.apply_monitor_defaults",
                "main.apply_monitor_defaults"}

\* the defaultable fields
Defaultable == { DefaultKeys[i] : i \in DOMAIN DefaultKeys }

\* the monitor after defaulting, as a mapping of field to value
Defaulted == IF IsDict(output.value) THEN output.value ELSE monitor_to_dict(output.value)

\* C8 as stated: every defaultable field that carries an explicitly set
\* value before apply_monitor_defaults has the same value after it
C8_ExplicitValueKept ==
    fn \in DefaultsFns =>
        \A k \in Defaultable :
            k \in DOMAIN input.monitor => Defaulted[k] = input.monitor[k]

\* C8, amended: every defaultable field that carries an explicitly set
\* non-empty, non-zero, non-null value before apply_monitor_defaults has the
\* same value after it
C8_ExplicitTruthyValueKept ==
    fn \in DefaultsFns =>
        \A k \in Defaultable :
            (k \in DOMAIN input.monitor /\ ~Falsy(input.monitor[k]))
                => Defaulted[k] = input.monitor[k]

\* defaults were applied to a Monitor object whose definition sets cron and
\* day_down_minimum_count to values other than the defaults
C8_Witness ==
    /\ fn = "apply_monitor_defaults"
    /\ "cron" \in DOMAIN input.monitor
    /\ "day_down_minimum_count" \in DOMAIN input.monitor
    /\ input.monitor["cron"] = "*/5 * * * *"
    /\ input.monitor["day_down_minimum_count"] = "3"
    /\ output.value.cron = "*/5 * * * *"
    /\ output.value.day_down_minimum_count = "3"
    /\ output.value.include_degraded_in_downtime = "NO"

\* the defaults the specification documents
Documented ==
    [ cron |-> "* * * * *",
      day_degraded_minimum_count |-> "1",
      day_down_minimum_count |-> "1",
      default_status |-> "NONE",
      include_degraded_in_downtime |-> "NO",
      status |-> "ACTIVE",
      degraded_trigger |-> Null,
      down_trigger |-> Null ]

\* C9: every defaultable field that is missing from a monitor holds the
\* documented default after defaulting (cron "* * * * *", both counts 1,
\* default_status NONE, include_degraded_in_downtime "NO", status ACTIVE,
\* both triggers null)
C9_MissingFieldGetsDocumentedDefault ==
    fn \in DefaultsFns =>
        \A k \in DOMAIN Documented :
            k \notin DOMAIN input.monitor => Defaulted[k] = Documented[k]

\* C24: defaulting sets created_at only when it is absent: a monitor that
\* carries a created_at value has the same value after apply_monitor_defaults,
\* and a monitor without one has the timestamp of the clock after it
C24_CreatedAtOnlyWhenAbsent ==
    fn \in DefaultsFns =>
        IF "created_at" \in DOMAIN input.monitor
        THEN Defaulted.created_at = input.monitor.created_at
        ELSE Defaulted.created_at = Now

TwiceFns == {"apply_monitor_defaults twice", "KenerAPI.apply_monitor_defaults twice"}

\* C28: with the clock fixed, apply_monitor_defaults applied to its own
\* result gives that result again, in every field, created_at included
C28_DefaultingIdempotent ==
    fn \in TwiceFns =>
        /\ DOMAIN output.value = DOMAIN output.once
        /\ \A k \in DOMAIN output.once : output.value[k] = output.once[k]

\* defaults were applied twice to a monitor that came without created_at and
\* with an empty description
C28_Witness ==
    /\ fn \in TwiceFns
    /\ "created_at" \notin DOMAIN input.monitor
    /\ "description" \in DOMAIN input.monitor
    /\ input.monitor.description = ""
    /\ output.once.created_at = Now
    /\ output.value.created_at = Now
    /\ output.value.cron = "* * * * *"

-----------------------------------------------------------------------------
(* load_yaml_files_from_folder (monitor.py, main.py) *)

MaxEntries == 4     \* entries of the folder

\* file names are sequences of characters
N_01_core_yml == <<"0", "1", "-", "c", "o", "r", "e", ".", "y", "m", "l">>
N_02_extra_yml == <<"0", "2", "-", "e", "x", "t", "r", "a", ".", "y", "m", "l">>
N_01_yml == <<"0", "1", "-", ".", "y", "m", "l">>
N_02_a_yml == <<"0", "2", "-", "a", ".", "y", "m", "l">>
N_readme_txt == <<"r", "e", "a", "d", "m", "e", ".", "t", "x", "t">>
N_extra_yaml == <<"e", "x", "t", "r", "a", ".", "y", "a", "m", "l">>
N_1_core_yml == <<"1", "-", "c", "o", "r", "e", ".", "y", "m", "l">>
N_x01_core_yml == <<"x", "0", "1", "-", "c", "o", "r", "e", ".", "y", "m", "l">>
N_01_core_yml_underscore == <<"0", "1", "_", "c", "o", "r", "e", ".", "y", "m", "l">>
N_01_core_yaml == <<"0", "1", "-", "c", "o", "r", "e", ".", "y", "a", "m", "l">>
N_01_core_ymlx == <<"0", "1", "-", "c", "o", "r", "e", ".", "y", "m", "l", "x">>
N_01_corexyml == <<"0", "1", "-", "c", "o", "r", "e", "x", "y", "m", "l">>
N_01_core_YML == <<"0", "1", "-", "c", "o", "r", "e", ".", "Y", "M", "L">>

\* the names an entry of the folder may have
FileName ==
    << N_01_core_yml,
       N_02_extra_yml,
       N_01_yml,
       N_02_a_yml,
       N_readme_txt,
       N_extra_yaml,
       N_1_core_yml,
       N_x01_core_yml,
       N_01_core_yml_underscore,
       N_01_core_yaml,
       N_01_core_ymlx,
       N_01_corexyml,
       N_01_core_YML >>

\* the entries a folder may hold, each with its own name
Files == DOMAIN FileName

\* the characters of the file names in ascending code point order
Alphabet == <<"-", ".", "0", "1", "2", "L", "M", "Y", "_", "a", "c", "d", "e", "l", "m", "o", "r", "t", "x", "y">>

\* ord(c), up to an order-preserving renumbering
CodePoint(c) == CHOOSE i \in DOMAIN Alphabet : Alphabet[i] = c

\* what folder_path names: nothing, a regular file, or a directory with the
\* entries S, each a regular file (TRUE) or not
FolderInputs(S) ==
    { [kind |-> k, is_file |-> EmptyDict] : k \in {"missing", "file"} }
    \cup { [kind |-> "dir", is_file |-> f] : f \in [S -> BOOLEAN] }

\* the character class \d, for the ASCII digits
IsDigit(c) == c \in {"0", "1", "2", "3", "4", "5", "6", "7", "8", "9"}

\* the pattern without its closing anchor: \d{2}-.*\.yml may end anywhere
re_match_NoEndAnchor(name) ==
    /\ Len(name) >= 7
    /\ IsDigit(name[1])
    /\ IsDigit(name[2])
    /\ name[3] = "-"
    /\ \E j \in 4..(Len(name) - 3) :
          /\ \A i \in 4..(j - 1) : name[i] # "\n"
          /\ SubSeq(name, j, j + 3) = <<".", "y", "m", "l">>

\* re.match(r"^\d{2}-.*\.yml$", name): two digits and a hyphen at the start,
\* any characters but a newline, then ".yml" at the end of the name or
\* before a newline that ends it
re_match(name) ==
    /\ Len(name) >= 7
    /\ IsDigit(name[1])
    /\ IsDigit(name[2])
    /\ name[3] = "-"
    /\ \E j \in 4..(Len(name) - 3) :
          /\ \A i \in 4..(j - 1) : name[i] # "\n"
          /\ SubSeq(name, j, j + 3) = <<".", "y", "m", "l">>
          /\ \/ j + 3 = Len(name)
             \/ j + 4 = Len(name) /\ name[Len(name)] = "\n"

RECURSIVE str_lt(_, _)
\* a < b for Python strings: by code point, a proper prefix first
str_lt(a, b) ==
    IF a = <<>> THEN b # <<>>
    ELSE IF b = <<>> THEN FALSE
    ELSE IF Head(a) = Head(b) THEN str_lt(Tail(a), Tail(b))
    ELSE CodePoint(Head(a)) < CodePoint(Head(b))

RECURSIVE sorted(_)
\* sorted(..., key=lambda f: f.name) of files with distinct names: the names
\* of the entries S in ascending order
sorted(S) ==
    IF S = {} THEN <<>>
    ELSE LET first == CHOOSE x \in S : \A y \in S \ {x} : str_lt(FileName[x], FileName[y])
         IN  <<FileName[first]>> \o sorted(S \ {first})

\* the list comprehension over folder.iterdir()
yaml_files(folder) ==
    sorted({ f \in DOMAIN folder.is_file : folder.is_file[f] /\ re_match(FileName[f]) })

\* monitor.py load_yaml_files_from_folder
load_yaml_files_from_folder(folder) ==
    IF folder.kind = "missing" THEN [raised |-> "ValueError", value |-> <<>>]
    ELSE IF folder.kind # "dir" THEN [raised |-> "ValueError", value |-> <<>>]
    ELSE [raised |-> "", value |-> yaml_files(folder)]

\* main.py load_yaml_files_from_folder
main_load_yaml_files_from_folder(folder) ==
    IF folder.kind # "dir" THEN [raised |-> "ValueError", value |-> <<>>]
    ELSE [raised |-> "", value |-> yaml_files(folder)]

load_yaml_files_from_folder_call ==
    /\ fn = ""
    /\ fn' = "load_yaml_files_from_folder"
    /\ output' = load_yaml_files_from_folder(input)
    /\ UNCHANGED input
    /\ UNCHANGED ApplyVars

main_load_yaml_files_from_folder_call ==
    /\ fn = ""
    /\ fn' = "main.load_yaml_files_from_folder"
    /\ output' = main_load_yaml_files_from_folder(input)
    /\ UNCHANGED input
    /\ UNCHANGED ApplyVars

InitFiles ==
    /\ ApplyOff
    /\ fn = ""
    /\ \E S \in SUBSET Files :
          /\ Cardinality(S) <= MaxEntries
          /\ input \in FolderInputs(S)
    /\ output = <<>>

NextFiles ==
    \/ load_yaml_files_from_folder_call
    \/ main_load_yaml_files_from_folder_call

SpecFiles == InitFiles /\ [][NextFiles]_vars

FilesFns == {"load_yaml_files_from_folder", "main.load_yaml_files_from_folder"}

\* a name made of two digits, a hyphen, any suffix and the extension .yml
TwoDigitsHyphenYml(name) ==
    /\ Len(name) >= 7
    /\ \A i \in {1, 2} : IsDigit(name[i])
    /\ name[3] = "-"
    /\ [i \in 1..4 |-> name[Len(name) - 4 + i]] = <<".", "y", "m", "l">>

\* name a comes strictly before name b in lexicographic order
LexBefore(a, b) ==
    \E k \in 1..(Len(a) + 1) :
        /\ k - 1 <= Len(b)
        /\ \A i \in 1..(k - 1) : a[i] = b[i]
        /\ \/ k = Len(a) + 1 /\ Len(b) >= k
           \/ k <= Len(a) /\ k <= Len(b) /\ CodePoint(a[k]) < CodePoint(b[k])

\* C10: for every directory content, load_yaml_files_from_folder returns
\* exactly the regular files whose name is two digits, a hyphen, any suffix
\* and the extension .yml, in ascending lexicographic order of the names;
\* files with other names or extensions are not returned
C10_SelectedAndSorted ==
    (fn \in FilesFns /\ input.kind = "dir") =>
        /\ output.raised = ""
        /\ { output.value[i] : i \in DOMAIN output.value } =
              { FileName[f] : f \in { g \in DOMAIN input.is_file :
                                        input.is_file[g] /\ TwoDigitsHyphenYml(FileName[g]) } }
        /\ \A i, j \in DOMAIN output.value :
              i < j => LexBefore(output.value[i], output.value[j])

\* the folder holds 01-core.yml, 02-extra.yml, readme.txt and extra.yaml, and
\* the loader returned the first two in that order
C10_Witness ==
    /\ fn \in FilesFns
    /\ input.kind = "dir"
    /\ { FileName[f] : f \in DOMAIN input.is_file } =
          {N_01_core_yml, N_02_extra_yml, N_readme_txt, N_extra_yaml}
    /\ \A f \in DOMAIN input.is_file : input.is_file[f]
    /\ output.value = <<N_01_core_yml, N_02_extra_yml>>

-----------------------------------------------------------------------------
(* load_monitors_from_yaml (monitor.py with types.py) and the loading of
   main.py cmd_apply *)

MaxRecords == 2     \* records under `monitors` in the file

\* a raw mapping called `name`, with the fields `extra` and without those `less`
Record(name, extra, less) ==
    LET full == extra @@ [id |-> 7, name |-> name, tag |-> name, monitor_type |-> "API"]
    IN  [k \in (DOMAIN full) \ less |-> full[k]]

\* the records of a file: complete ones, one without id, one without name,
\* and one for each enumerated field with a string outside the enumeration
Records ==
    { Record("plain", EmptyDict, {}),
      Record("up", [status |-> "UP", default_status |-> "DOWN"], {}),
      Record("no-id", EmptyDict, {"id"}),
      Record("no-name", EmptyDict, {"name"}),
      Record("bad-type", [monitor_type |-> "HTTP"], {}),
      Record("bad-status", [status |-> "ACTIVE"], {}),
      Record("bad-default-status", [default_status |-> "BROKEN"], {}) }

\* a file with up to n records, or a file that holds no list of monitors
LoadInputs(n) ==
    { [kind |-> "ok", monitors |-> ms] : ms \in [1..n -> Records] }
    \cup { BadFile(kind) : kind \in BadKinds }

\* monitor.py load_monitors_from_yaml applied to the file
load_monitors_from_yaml_call ==
    /\ fn = ""
    /\ fn' = "load_monitors_from_yaml"
    /\ output' = [raised |-> "", value |-> load_monitors_from_yaml(input)]
    /\ UNCHANGED input
    /\ UNCHANGED ApplyVars

\* main.py cmd_apply 308-311 applied to the file
main_file_monitors_call ==
    /\ fn = ""
    /\ fn' = "main.cmd_apply"
    /\ output' = IF main_file_raises(input) # ""
                 THEN [raised |-> main_file_raises(input), value |-> <<>>]
                 ELSE [raised |-> "", value |-> main_file_monitors(input)]
    /\ UNCHANGED input
    /\ UNCHANGED ApplyVars

InitLoad ==
    /\ ApplyOff
    /\ fn = ""
    /\ \E n \in 0..MaxRecords : input \in LoadInputs(n)
    /\ output = <<>>

NextLoad ==
    \/ load_monitors_from_yaml_call
    \/ main_file_monitors_call

SpecLoad == InitLoad /\ [][NextLoad]_vars

\* the loaded list holds a Monitor made from the record
Loaded(record) ==
    \E k \in DOMAIN output.value :
        /\ ~IsDict(output.value[k])
        /\ output.value[k].tag = record["tag"]

\* the enumerated fields of the record hold members of their enumerations
EnumsOK(record) ==
    /\ "monitor_type" \in DOMAIN record /\ record["monitor_type"] \in MonitorType
    /\ "status" \in DOMAIN record => record["status"] \in MonitorStatus
    /\ "default_status" \in DOMAIN record => record["default_status"] \in MonitorStatus

\* C16: a raw mapping with name, tag and a valid monitor_type but without
\* `id` is converted to a Monitor by load_monitors_from_yaml.
C16_IdNotRequired ==
    fn = "load_monitors_from_yaml" =>
        \A i \in DOMAIN input.monitors :
            LET record == input.monitors[i] IN
            ({"name", "tag"} \subseteq DOMAIN record /\ EnumsOK(record)) => Loaded(record)

\* C17: a raw mapping whose monitor_type, status or default_status is outside
\* its enumeration is not in the list load_monitors_from_yaml returns, and
\* the list holds, in file order, the records that convert.
C17_ClosedEnumerations ==
    fn = "load_monitors_from_yaml" =>
        LET raw == input.monitors
            good == { i \in DOMAIN raw : EnumsOK(raw[i]) /\ {"id", "name"} \subseteq DOMAIN raw[i] }
            out == output.value
        IN  /\ \A i \in DOMAIN raw : ~EnumsOK(raw[i]) => ~Loaded(raw[i])
            /\ Len(out) = Cardinality(good)
            /\ \A k \in DOMAIN out :
                  /\ out[k].tag = raw[NthOf(good, k)]["tag"]
                  /\ out[k].monitor_type.value \in MonitorType
                  /\ out[k].status.value \in MonitorStatus
                  /\ out[k].default_status.value \in MonitorStatus

\* a file with a record of status "ACTIVE" before a complete record: only
\* the second is loaded
C17_Witness ==
    /\ fn = "load_monitors_from_yaml"
    /\ input.kind = "ok"
    /\ Len(input.monitors) = 2
    /\ input.monitors[1]["tag"] = "bad-status"
    /\ input.monitors[2]["tag"] = "up"
    /\ Len(output.value) = 1
    /\ output.value[1].tag = "up"
    /\ output.value[1].status = EnumMember("MonitorStatus", "UP")


-----------------------------------------------------------------------------
(* The stored configuration (config.py, main.py): instances and the default *)

Names == {"prod", "dev"}
Unknown == "ghost"
Hosts == {"h1", "h2"}

\* the record save_instance stores under the name
InstanceRecord(host) == [host |-> host, port |-> "443", token |-> "t", folder |-> "f"]

\* config.py save_instance, lines 36-38: a required field is empty (the
\* model passes token and folder non-empty); main.py has no such test
save_instance_raises(name, host) == impl = "config" /\ (Falsy(name) \/ Falsy(host))

\* save_instance recording the saved name as the default in every call
saved_cfg_AlwaysDefault(cfg, name, host, set_default) ==
    LET c1 == SetDefault(cfg, "instances", EmptyDict)
        c2 == Put(c1, "instances", Put(c1["instances"], name, InstanceRecord(host)))
    IN  Put(c2, "default", name)

\* save_instance: the content written back (config.py 48-60, main.py 70-82)
saved_cfg(cfg, name, host, set_default) ==
    LET c1 == SetDefault(cfg, "instances", EmptyDict)
        c2 == Put(c1, "instances", Put(c1["instances"], name, InstanceRecord(host)))
    IN  IF set_default \/ "default" \notin DOMAIN c2 THEN Put(c2, "default", name) ELSE c2

\* set_default_instance testing only that the file exists
set_default_instance_raises_FileOnly(file, name) ==
    IF ~file.exists THEN "FileNotFoundError" ELSE ""

\* set_default_instance: the exception it raises, "" when none
set_default_instance_raises(file, name) ==
    IF ~file.exists THEN "FileNotFoundError"
    ELSE IF "instances" \notin DOMAIN file.cfg \/ name \notin DOMAIN file.cfg["instances"]
         THEN "ValueError"
         ELSE ""

\* load_config returning the record of the default for a name it does not find
load_config_FallsBackToDefault(file, instance) ==
    LET instances == Get(file.cfg, "instances", EmptyDict)
        default_instance == Get(file.cfg, "default", Null)
        fails(error) == [raised |-> error, value |-> EmptyDict]
    IN  IF ~file.exists THEN fails("FileNotFoundError")
        ELSE IF DOMAIN instances = {} THEN fails("ValueError: no instances")
        ELSE IF ~Falsy(instance) /\ instance \in DOMAIN instances
             THEN [raised |-> "", value |-> instances[instance]]
        ELSE IF Falsy(default_instance) \/ default_instance \notin DOMAIN instances
             THEN fails("ValueError: no default")
             ELSE [raised |-> "", value |-> instances[default_instance]]

\* load_config(instance), instance = None being Null: the exception raised
\* or the record returned
load_config(file, instance) ==
    LET instances == Get(file.cfg, "instances", EmptyDict)
        default_instance == Get(file.cfg, "default", Null)
        fails(error) == [raised |-> error, value |-> EmptyDict]
    IN  IF ~file.exists THEN fails("FileNotFoundError")
        ELSE IF DOMAIN instances = {} THEN fails("ValueError: no instances")
        ELSE IF ~Falsy(instance)
             THEN IF instance \notin DOMAIN instances
                  THEN fails("ValueError: instance not found")
                  ELSE [raised |-> "", value |-> instances[instance]]
        ELSE IF Falsy(default_instance) \/ default_instance \notin DOMAIN instances
             THEN fails("ValueError: no default")
             ELSE [raised |-> "", value |-> instances[default_instance]]

\* the variables of an apply run, which the configuration commands leave alone
ConfigIdle == <<impl, files, remote, run, pc, fi, monitors, mi, seen_tags, cur,
                kids, resolved, log, snap, faults, setup, raised>>

save_instance ==
    /\ \E name \in Names \cup {""}, host \in Hosts \cup {""}, set_default \in BOOLEAN :
         /\ fn' = "save_instance"
         /\ input' = [name |-> name, host |-> host, set_default |-> set_default]
         /\ IF save_instance_raises(name, host)
            THEN /\ output' = [raised |-> "ValueError", value |-> EmptyDict]
                 /\ UNCHANGED config_file
            ELSE /\ output' = [raised |-> "", value |-> EmptyDict]
                 /\ config_file' = [exists |-> TRUE,
                                    cfg |-> saved_cfg(config_file.cfg, name, host, set_default)]
    /\ UNCHANGED ConfigIdle

set_default_instance ==
    /\ \E name \in Names \cup {Unknown, ""} :
         /\ fn' = "set_default_instance"
         /\ input' = [name |-> name]
         /\ output' = [raised |-> set_default_instance_raises(config_file, name),
                       value |-> EmptyDict]
         /\ IF set_default_instance_raises(config_file, name) # ""
            THEN UNCHANGED config_file
            ELSE config_file' = [config_file EXCEPT !.cfg = Put(@, "default", name)]
    /\ UNCHANGED ConfigIdle

load_config_call ==
    /\ \E instance \in Names \cup {Unknown, "", Null} :
         /\ fn' = "load_config"
         /\ input' = [instance |-> instance]
         /\ output' = load_config(config_file, instance)
    /\ UNCHANGED config_file
    /\ UNCHANGED ConfigIdle

InitConfig ==
    /\ impl \in {"config", "main"}
    /\ files = <<>>
    /\ remote = <<>>
    /\ run = 0
    /\ pc = "Off"
    /\ fi = 0
    /\ monitors = <<>>
    /\ mi = 0
    /\ seen_tags = {}
    /\ cur = EmptyDict
    /\ kids = <<>>
    /\ resolved = <<>>
    /\ log = <<>>
    /\ snap = <<>>
    /\ faults = 0
    /\ setup = "ok"
    /\ raised = ""
    /\ NoCall
    /\ config_file = NoConfigFile

NextConfig ==
    \/ save_instance
    \/ set_default_instance
    \/ load_config_call

SpecConfig == InitConfig /\ [][NextConfig]_vars

\* C29: starting without a configuration, once an instance was saved (the
\* file exists) and whatever save_instance and set_default_instance calls
\* followed, `default` names an instance that is among `instances`, and
\* load_config without an instance name returns the record of that instance
C29_DefaultNamesAnInstance ==
    (impl = "config" /\ config_file.exists) =>
        LET cfg == config_file.cfg IN
        /\ "instances" \in DOMAIN cfg
        /\ "default" \in DOMAIN cfg
        /\ cfg["default"] \in DOMAIN cfg["instances"]
        /\ load_config(config_file, Null) =
               [raised |-> "", value |-> cfg["instances"][cfg["default"]]]
        /\ (fn = "load_config" /\ input.instance = Null) =>
               output = [raised |-> "", value |-> cfg["instances"][cfg["default"]]]

\* two instances are stored, the default is "dev", and load_config without a
\* name has returned the record of "dev"
C29_Witness ==
    /\ impl = "config"
    /\ fn = "load_config"
    /\ input.instance = Null
    /\ config_file.exists
    /\ DOMAIN config_file.cfg["instances"] = {"prod", "dev"}
    /\ config_file.cfg["default"] = "dev"
    /\ config_file.cfg["instances"]["prod"].host = "h1"
    /\ output = [raised |-> "", value |-> InstanceRecord("h2")]

\* C30: a save_instance call with set_default = false made while a default
\* is recorded leaves `default` and the record of every other instance as
\* they were; a call with set_default = true, or made while no default is
\* recorded, makes the saved name the default
C30_SaveChangesDefaultOnlyWhenAsked ==
    [][ (fn' = "save_instance" /\ output'.raised = "") =>
          LET before == config_file.cfg
              after == config_file'.cfg
              name == input'.name
          IN  /\ after["instances"][name] = InstanceRecord(input'.host)
              /\ IF ~input'.set_default /\ "default" \in DOMAIN before
                 THEN /\ after["default"] = before["default"]
                      /\ \A n \in (DOMAIN before["instances"]) \ {name} :
                            /\ n \in DOMAIN after["instances"]
                            /\ after["instances"][n] = before["instances"][n]
                 ELSE after["default"] = name ]_vars

\* "dev" was saved without set_default while "prod" was the default and
\* stays it
C30_Witness ==
    /\ fn = "save_instance"
    /\ output.raised = ""
    /\ input = [name |-> "dev", host |-> "h2", set_default |-> FALSE]
    /\ config_file.cfg["default"] = "prod"
    /\ config_file.cfg["instances"]["prod"] = InstanceRecord("h1")
    /\ config_file.cfg["instances"]["dev"] = InstanceRecord("h2")

\* the name is not among the instances the file holds
UnknownName(file, name) ==
    \/ ~file.exists
    \/ "instances" \notin DOMAIN file.cfg
    \/ name \notin DOMAIN file.cfg["instances"]

\* set_default_instance was called with a name that is not configured: it
\* raised and the stored configuration is as it was
UnknownDefaultRefused ==
    (fn' = "set_default_instance" /\ UnknownName(config_file, input'.name)) =>
        /\ output'.raised # ""
        /\ config_file' = config_file

\* C31 as stated: set_default_instance with a name that is not among the
\* configured instances fails and leaves instances and default unchanged;
\* load_config with an unknown instance name fails and returns no record
C31_UnknownNameFails ==
    [][ /\ UnknownDefaultRefused
        /\ (/\ fn' = "load_config"
            /\ input'.instance # Null
            /\ UnknownName(config_file, input'.instance)) =>
               /\ output'.raised # ""
               /\ output'.value = EmptyDict ]_vars

\* C31, amended: ... load_config with a non-empty instance name that is not
\* configured fails and returns no record (the empty name counts as no name)
C31_UnknownNonEmptyNameFails ==
    [][ /\ UnknownDefaultRefused
        /\ (/\ fn' = "load_config"
            /\ ~Falsy(input'.instance)
            /\ UnknownName(config_file, input'.instance)) =>
               /\ output'.raised # ""
               /\ output'.value = EmptyDict ]_vars

\* with "prod" stored as the default, load_config("ghost") has raised
C31_Witness ==
    /\ fn = "load_config"
    /\ input.instance = Unknown
    /\ config_file.exists
    /\ config_file.cfg["default"] = "prod"
    /\ DOMAIN config_file.cfg["instances"] = {"prod"}
    /\ output = [raised |-> "ValueError: instance not found", value |-> EmptyDict]

=============================================================================
